---- MODULE Spec2Model ----
(***************************************************************************)
(* A model of the CRM GraphQL mutations of crm/schema.py over the models   *)
(* of crm/models.py.                                                       *)
(*                                                                         *)
(* Each request is handled by one worker (Procs).  A resolver is split at  *)
(* its database accesses: every action below is one store access together  *)
(* with the local computation that follows it.  The store is a relational  *)
(* store with read-committed isolation: rows written inside                *)
(* transaction.atomic() are private to the writer (tx[p]) until the block  *)
(* exits; rows written outside a block are committed at once.              *)
(*                                                                         *)
(* Strings that the code inspects (emails, phones, ids) are sequences of   *)
(* one-character strings.  Decimal amounts are integers counted in         *)
(* thousandths (1000 = 1.00), so that a value with more than two decimal   *)
(* places can be told from its two-place stored form.                      *)
(***************************************************************************)
EXTENDS Integers, Sequences, FiniteSets, TLC

VARIABLES
    customers,      \* committed crm_customer rows
    products,       \* committed crm_product rows
    orders,         \* committed crm_order rows
    orderProducts,  \* committed crm_orderproduct rows
    nextId,         \* the auto-increment counters of the three id columns
    pc,             \* pc[p]: where worker p stands in its resolver
    req,            \* req[p]: the mutation p runs and its input
    loc,            \* loc[p]: the resolver's local variables
    tx,             \* tx[p]: p's open transaction (uncommitted rows)
    resp,           \* resp[p]: the object the resolver returned
    calls           \* number of requests accepted so far

vars == <<customers, products, orders, orderProducts, nextId, pc, req, loc, tx, resp, calls>>

Procs == {"w1", "w2"}

\* ------------------------------------------------------------------ bounds
MaxCalls == 2
MaxBulk == 2
MaxBulkSeq == 3
MaxProductIds == 2

\* ------------------------------------------------------------ characters
Letters == {"a", "b", "c", "o", "x"}
Digits == {"0", "1", "2", "3", "4", "5", "6", "7", "8", "9"}
Whitespace == {" ", "\n"}

EmailLocalChars == Letters \cup Digits \cup {".", "_", "%", "+", "-"}
EmailDomainChars == Letters \cup Digits \cup {".", "-"}
PhoneChars == Digits \cup Whitespace \cup {"-", "(", ")"}

AllIn(s, lo, hi, class) == \A i \in lo..hi : s[i] \in class

\* re.match(r'^[a-zA-Z0-9._%+-]+@[a-zA-Z0-9.-]+\.[a-zA-Z]{2,}$', email):
\* some split local "@" domain "." tld matches; "$" also matches just before
\* a final newline.
EmailRegexMatches(s) ==
    \E end \in {Len(s)} \cup {n \in {Len(s) - 1} : n >= 1 /\ s[n + 1] = "\n"} :
      \E at \in 1..end : \E dot \in 1..end :
        /\ at > 1
        /\ AllIn(s, 1, at - 1, EmailLocalChars)
        /\ s[at] = "@"
        /\ dot > at + 1
        /\ AllIn(s, at + 1, dot - 1, EmailDomainChars)
        /\ s[dot] = "."
        /\ end - dot >= 2
        /\ AllIn(s, dot + 1, end, Letters)

\* re.match(r'^\+?[\d\s\-\(\)]+$', phone)
PhoneRegexMatches(s) ==
    LET start == IF Len(s) >= 1 /\ s[1] = "+" THEN 2 ELSE 1
    IN  Len(s) >= start /\ AllIn(s, start, Len(s), PhoneChars)

\* validate_email / validate_phone / validate_price / validate_stock raise
\* ValidationError(<message>); here: <<>> when the value passes, otherwise
\* the one-element sequence holding the message raised.
validate_email(email) ==
    IF EmailRegexMatches(email) THEN <<>> ELSE <<"Invalid email format">>

validate_phone(phone) ==
    IF phone # <<>> /\ ~PhoneRegexMatches(phone)
    THEN <<"Invalid phone format. Use format like '+1234567890' or '123-456-7890'">>
    ELSE <<>>

validate_price(price) == IF price <= 0 THEN <<"Price must be positive">> ELSE <<>>

validate_stock(stock) == IF stock < 0 THEN <<"Stock cannot be negative">> ELSE <<>>

\* ErrorType(field=..., message=...)
ErrorType(field, message) == [field |-> field, message |-> message]

\* The except ValidationError branch of the resolvers.  The validators raise
\* ValidationError with a plain message, which has no message_dict, so the
\* branch taken is field="general", message=str(e); str() of such an error
\* is the repr of its message list.
ValidationErrorEntry(msg) == ErrorType("general", "['" \o msg \o "']")

\* The except Exception branch: field="general", message=str(e).
ExceptionEntry(msg) == ErrorType("general", msg)

\* --------------------------------------------------------------- inputs
EAlice == <<"a", "@", "b", ".", "c", "o">>
EBob == <<"b", "@", "x", ".", "c", "o">>
ENoTld == <<"a", "@", "b">>
PhoneOk == <<"+", "1", " ", "2">>
PhoneBad == <<"x", "1">>

\* CustomerInput objects; phone <<>> stands for a phone left out or empty.
CustomerInputs == {
    [name |-> "Alice", email |-> EAlice, phone |-> <<>>],
    [name |-> "Alice2", email |-> EAlice, phone |-> PhoneOk],
    [name |-> "Bob", email |-> EBob, phone |-> <<>>],
    [name |-> "Carol", email |-> ENoTld, phone |-> <<>>],
    [name |-> "Dave", email |-> EBob, phone |-> PhoneBad] }

RECURSIVE SeqsUpTo(_, _)
SeqsUpTo(S, n) ==
    IF n = 0 THEN {<<>>}
    ELSE LET shorter == SeqsUpTo(S, n - 1)
         IN  shorter \cup {Append(s, x) : s \in {t \in shorter : Len(t) = n - 1}, x \in S}

\* The rows of the batches that run beside other requests: two valid rows
\* with different emails.
BulkRows == {input \in CustomerInputs : input.name \in {"Alice", "Bob"}}

BulkInputs == SeqsUpTo(BulkRows, MaxBulk)
BulkInputsSeq == SeqsUpTo(CustomerInputs, MaxBulkSeq)

\* input is graphene.List(CustomerInput, required=True): the list is
\* required, its rows are not, so a row may be null (None in the resolver).
NullRow == [null |-> TRUE]
IsNull(row) == DOMAIN row = {"null"}

BulkInputsNull == SeqsUpTo(CustomerInputs \cup {NullRow}, MaxBulkSeq)

\* -------------------------------------------------------- the store
NoTx == [active |-> FALSE, needs_rollback |-> FALSE,
         customers |-> {}, orders |-> {}, lines |-> {}]

NoLoc == [i |-> 0]
NoReq == [op |-> "none"]
NoResp == [op |-> "none"]

\* What a query of worker p sees of crm_customer: the committed rows and the
\* rows of its own open transaction.
VisibleCustomers(p) == customers \cup tx[p].customers

\* A query run inside an atomic block after a statement of the block failed
\* raises TransactionManagementError.
BrokenTransaction(p) == tx[p].active /\ tx[p].needs_rollback

\* Customer.objects.filter(email=...).exists()
EmailExists(p, email) == \E c \in VisibleCustomers(p) : c.email = email

\* unique=True on Customer.email, as the store enforces it at an INSERT: the
\* insert fails when a row that p can see holds the email.
UniqueEmailViolatedNever(p, email) == FALSE
UniqueEmailViolated(p, email) == \E c \in VisibleCustomers(p) : c.email = email

\* The workers other than p that hold an uncommitted row with this email; an
\* INSERT of the same key waits until their transaction ends.
HoldersOf(p, email) ==
    {q \in Procs \ {p} : \E c \in tx[q].customers : c.email = email}

\* q waits for a row p holds: q stands at an INSERT of an email p wrote.
WaitsFor(q, p) ==
    /\ pc[q] \in {"cc_create", "bulk_create"}
    /\ ~BrokenTransaction(q)
    /\ LET e == IF pc[q] = "cc_create" THEN req[q].input.email
                ELSE req[q].input[loc[q].i].email
       IN  p \in HoldersOf(q, e)

\* The outcome of INSERT INTO crm_customer by p:
\*   "broken"    the atomic block is already marked for rollback
\*   "deadlock"  p would wait for a worker that waits for p; the store aborts p
\*   "wait"      another open transaction holds the key (no step is taken)
\*   "integrity" the unique constraint fails
\*   "ok"        the row is written
InsertCustomerOutcome(p, email) ==
    IF BrokenTransaction(p) THEN "broken"
    ELSE IF UniqueEmailViolated(p, email) THEN "integrity"
    ELSE IF HoldersOf(p, email) = {} THEN "ok"
    ELSE IF \E q \in HoldersOf(p, email) : WaitsFor(q, p) THEN "deadlock"
    ELSE "wait"

InsertErrorMessage(outcome) ==
    CASE outcome = "broken" -> "TransactionManagementError"
      [] outcome = "deadlock" -> "OperationalError: deadlock detected"
      [] outcome = "integrity" -> "IntegrityError: UNIQUE constraint failed"
      [] OTHER -> ""

\* Customer.objects.create(name=..., email=..., phone=input.get('phone', ''))
NewCustomer(input) ==
    [id |-> nextId.customer, name |-> input.name,
     email |-> input.email, phone |-> input.phone]

Bump(field) == [nextId EXCEPT ![field] = @ + 1]

\* The rows the store holds once p's outermost atomic block exits: the block
\* commits unless an exception leaves it or it is marked for rollback.
AtomicExitAlwaysCommits(committed, written, p, raised) == committed \cup written
AtomicExitNeverCommits(committed, written, p, raised) == committed
AtomicExit(committed, written, p, raised) ==
    IF raised \/ tx[p].needs_rollback THEN committed ELSE committed \cup written

\* ------------------------------------------------------- CreateCustomer
CanCall(p) == pc[p] = "idle" /\ calls < MaxCalls

Accept(p, op, input) ==
    /\ req' = [req EXCEPT ![p] = [op |-> op, input |-> input]]
    /\ calls' = calls + 1

\* The response has gone to the client; the worker is free for a request.
Return(p) ==
    /\ pc[p] = "done"
    /\ pc' = [pc EXCEPT ![p] = "idle"]
    /\ req' = [req EXCEPT ![p] = NoReq]
    /\ loc' = [loc EXCEPT ![p] = NoLoc]
    /\ resp' = [resp EXCEPT ![p] = NoResp]
    /\ UNCHANGED <<customers, products, orders, orderProducts, nextId, tx, calls>>

CreateCustomerResp(customer, message, errors) ==
    [op |-> "CreateCustomer", customer |-> customer, message |-> message, errors |-> errors]

\* lines 134-143: the resolver is entered and its input validated.
CreateCustomerCall(p, input) ==
    /\ CanCall(p)
    /\ Accept(p, "CreateCustomer", input)
    /\ LET bad == IF validate_email(input.email) # <<>> THEN validate_email(input.email)
                  ELSE IF input.phone # <<>> THEN validate_phone(input.phone)
                  ELSE <<>>
       IN  IF bad # <<>>
           THEN /\ pc' = [pc EXCEPT ![p] = "done"]
                /\ resp' = [resp EXCEPT ![p] =
                       CreateCustomerResp(<<>>, "Validation failed",
                                          <<ValidationErrorEntry(bad[1])>>)]
           ELSE /\ pc' = [pc EXCEPT ![p] = "cc_exists"]
                /\ resp' = [resp EXCEPT ![p] = NoResp]
    /\ loc' = [loc EXCEPT ![p] = NoLoc]
    /\ UNCHANGED <<customers, products, orders, orderProducts, nextId, tx>>

\* The existence check of the single create; the mutant skips it.
CreateCustomerSeesEmailNever(p) == FALSE
CreateCustomerSeesEmail(p) == EmailExists(p, req[p].input.email)

\* lines 145-148: the existence check.
CreateCustomerExists(p) ==
    /\ pc[p] = "cc_exists"
    /\ IF CreateCustomerSeesEmail(p)
       THEN /\ pc' = [pc EXCEPT ![p] = "done"]
            /\ resp' = [resp EXCEPT ![p] =
                   CreateCustomerResp(<<>>, "Failed to create customer",
                                      <<ErrorType("email", "Email already exists")>>)]
       ELSE /\ pc' = [pc EXCEPT ![p] = "cc_create"]
            /\ UNCHANGED resp
    /\ UNCHANGED <<customers, products, orders, orderProducts, nextId, req, loc, tx, calls>>

\* lines 150-161 and 172-174: the insert, committed at once, and the return.
CreateCustomerCreate(p) ==
    /\ pc[p] = "cc_create"
    /\ LET outcome == InsertCustomerOutcome(p, req[p].input.email)
           row == NewCustomer(req[p].input)
       IN  /\ outcome # "wait"
           /\ IF outcome = "ok"
              THEN /\ customers' = customers \cup {row}
                   /\ nextId' = Bump("customer")
                   /\ resp' = [resp EXCEPT ![p] =
                          CreateCustomerResp(<<row>>, "Customer created successfully", <<>>)]
              ELSE /\ UNCHANGED <<customers, nextId>>
                   /\ resp' = [resp EXCEPT ![p] =
                          CreateCustomerResp(<<>>, "Failed to create customer",
                                             <<ExceptionEntry(InsertErrorMessage(outcome))>>)]
    /\ pc' = [pc EXCEPT ![p] = "done"]
    /\ UNCHANGED <<products, orders, orderProducts, req, loc, tx, calls>>

\* -------------------------------------------------- BulkCreateCustomers
\* CustomerError(index=i, email=..., errors=[...])
CustomerError(index, email, errors) == [index |-> index, email |-> email, errors |-> errors]

\* enumerate() numbers the rows from 0; loc[p].i counts them from 1.
RowIndexOneBased(i) == i
RowIndex(i) == i - 1

\* lines 240-244: the summary message, as the pieces the f-strings join.
BulkMessage(success_count, error_count) ==
    <<"Successfully created ", ToString(success_count), " customers">>
    \o (IF error_count > 0 THEN <<", ", ToString(error_count), " failed">> ELSE <<>>)

BulkResp(created, errors) ==
    [op |-> "BulkCreateCustomers", customers |-> created, errors |-> errors,
     message |-> BulkMessage(Len(created), Len(errors))]

\* lines 185-189: the resolver is entered and the atomic block opened.
BulkCall(p, input) ==
    /\ CanCall(p)
    /\ Accept(p, "BulkCreateCustomers", input)
    /\ pc' = [pc EXCEPT ![p] = "bulk_row"]
    /\ loc' = [loc EXCEPT ![p] = [i |-> 1, created |-> <<>>, errors |-> <<>>]]
    /\ tx' = [tx EXCEPT ![p] = [NoTx EXCEPT !.active = TRUE]]
    /\ resp' = [resp EXCEPT ![p] = NoResp]
    /\ UNCHANGED <<customers, products, orders, orderProducts, nextId>>

BulkRowFails(p, entry) ==
    LET row == req[p].input[loc[p].i]
    IN  loc' = [loc EXCEPT ![p].errors =
                    Append(@, CustomerError(RowIndex(loc[p].i), row.email, <<entry>>)),
                ![p].i = @ + 1]

\* lines 190-204 and 212-238: one row is validated and looked up.
BulkRowCheck(p) ==
    /\ pc[p] = "bulk_row"
    /\ loc[p].i <= Len(req[p].input)
    /\ ~IsNull(req[p].input[loc[p].i])
    /\ LET row == req[p].input[loc[p].i]
           bad == IF validate_email(row.email) # <<>> THEN validate_email(row.email)
                  ELSE IF row.phone # <<>> THEN validate_phone(row.phone)
                  ELSE <<>>
       IN  IF bad # <<>>
           THEN BulkRowFails(p, ValidationErrorEntry(bad[1])) /\ UNCHANGED pc
           ELSE IF BrokenTransaction(p)
           THEN BulkRowFails(p, ExceptionEntry(InsertErrorMessage("broken"))) /\ UNCHANGED pc
           ELSE IF EmailExists(p, row.email)
           THEN BulkRowFails(p, ErrorType("email", "Email already exists")) /\ UNCHANGED pc
           ELSE pc' = [pc EXCEPT ![p] = "bulk_create"] /\ UNCHANGED loc
    /\ UNCHANGED <<customers, products, orders, orderProducts, nextId, req, tx, resp, calls>>

\* lines 205-211 and 232-238: the insert of one row inside the block.
BulkRowCreate(p) ==
    /\ pc[p] = "bulk_create"
    /\ LET input == req[p].input[loc[p].i]
           outcome == InsertCustomerOutcome(p, input.email)
           row == NewCustomer(input)
       IN  /\ outcome # "wait"
           /\ IF outcome = "ok"
              THEN /\ tx' = [tx EXCEPT ![p].customers = @ \cup {row}]
                   /\ nextId' = Bump("customer")
                   /\ loc' = [loc EXCEPT ![p].created = Append(@, row), ![p].i = @ + 1]
              ELSE /\ tx' = [tx EXCEPT ![p].needs_rollback = TRUE]
                   /\ UNCHANGED nextId
                   /\ BulkRowFails(p, ExceptionEntry(InsertErrorMessage(outcome)))
    /\ pc' = [pc EXCEPT ![p] = "bulk_row"]
    /\ UNCHANGED <<customers, products, orders, orderProducts, req, resp, calls>>

\* What the transport gets when an exception leaves the resolver: no response
\* object, the exception's text.
Fault(op, message) == [op |-> op, fault |-> message]

\* lines 195 and 232-238 on a row that is None: customer_input.email raises
\* AttributeError, the except Exception handler reads customer_input.email
\* again, and that AttributeError leaves the loop, the atomic block (which
\* rolls back) and the resolver.
BulkRowRaises(p) ==
    /\ pc[p] = "bulk_row"
    /\ loc[p].i <= Len(req[p].input)
    /\ IsNull(req[p].input[loc[p].i])
    /\ customers' = AtomicExit(customers, tx[p].customers, p, TRUE)
    /\ tx' = [tx EXCEPT ![p] = NoTx]
    /\ resp' = [resp EXCEPT ![p] =
           Fault("BulkCreateCustomers", "'NoneType' object has no attribute 'email'")]
    /\ pc' = [pc EXCEPT ![p] = "done"]
    /\ UNCHANGED <<products, orders, orderProducts, nextId, req, loc, calls>>

\* lines 189 (block exit) and 240-250: commit or rollback, then the return.
BulkExit(p) ==
    /\ pc[p] = "bulk_row"
    /\ loc[p].i > Len(req[p].input)
    /\ customers' = AtomicExit(customers, tx[p].customers, p, FALSE)
    /\ tx' = [tx EXCEPT ![p] = NoTx]
    /\ resp' = [resp EXCEPT ![p] = BulkResp(loc[p].created, loc[p].errors)]
    /\ loc' = [loc EXCEPT ![p] = NoLoc]
    /\ pc' = [pc EXCEPT ![p] = "done"]
    /\ UNCHANGED <<products, orders, orderProducts, nextId, req, calls>>

\* -------------------------------------------------------- CreateProduct
\* DecimalField(max_digits=10, decimal_places=2): the store keeps two decimal
\* places, rounding half to even.  Amounts are counted in thousandths.
Quantize(amount) ==
    LET q == amount \div 10
        r == amount % 10
    IN  IF r < 5 THEN q * 10
        ELSE IF r > 5 THEN (q + 1) * 10
        ELSE IF q % 2 = 0 THEN q * 10 ELSE (q + 1) * 10

\* ProductInput objects: price in thousandths; stock <<>> stands for a stock
\* left out.
ProductInputs == {
    [price |-> -1000, stock |-> <<5>>],
    [price |-> 0, stock |-> <<>>],
    [price |-> 4, stock |-> <<>>],
    [price |-> 1000, stock |-> <<>>],
    [price |-> 1000, stock |-> <<-1>>],
    [price |-> 2500, stock |-> <<5>>] }

\* Product.clean, called by Product.save: a ValidationError keyed by field.
ProductClean(price) ==
    IF price <= 0 THEN <<ErrorType("price", "Price must be positive.")>> ELSE <<>>

CreateProductResp(product, message, errors) ==
    [op |-> "CreateProduct", product |-> product, message |-> message, errors |-> errors]

\* lines 261-297: the whole resolver; its one store access is the insert.
CreateProductCall(p, input) ==
    /\ CanCall(p)
    /\ Accept(p, "CreateProduct", input)
    /\ LET stock == IF input.stock = <<>> THEN 0 ELSE input.stock[1]
           bad == IF validate_price(input.price) # <<>> THEN validate_price(input.price)
                  ELSE validate_stock(stock)
           product == [id |-> nextId.product, price |-> input.price, stock |-> stock]
       IN  IF bad # <<>>
           THEN /\ resp' = [resp EXCEPT ![p] =
                       CreateProductResp(<<>>, "Validation failed",
                                         <<ValidationErrorEntry(bad[1])>>)]
                /\ UNCHANGED <<products, nextId>>
           ELSE IF ProductClean(input.price) # <<>>
           THEN /\ resp' = [resp EXCEPT ![p] =
                       CreateProductResp(<<>>, "Validation failed", ProductClean(input.price))]
                /\ UNCHANGED <<products, nextId>>
           ELSE /\ products' = products \cup {[product EXCEPT !.price = Quantize(@)]}
                /\ nextId' = Bump("product")
                /\ resp' = [resp EXCEPT ![p] =
                       CreateProductResp(<<product>>, "Product created successfully", <<>>)]
    /\ pc' = [pc EXCEPT ![p] = "done"]
    /\ loc' = [loc EXCEPT ![p] = NoLoc]
    /\ UNCHANGED <<customers, orders, orderProducts, tx>>

\* The prices a stored product is later given: 19.99 and 1.00.
NewPrices == {19990, 1000}

\* Product.save on a stored product whose price attribute was set: clean()
\* runs first, then the row is updated.
ProductSave(id, price) ==
    /\ ProductClean(price) = <<>>
    /\ \E x \in products :
          /\ x.id = id
          /\ products' = (products \ {x}) \cup {[x EXCEPT !.price = Quantize(price)]}
    /\ UNCHANGED <<customers, orders, orderProducts, nextId, pc, req, loc, tx, resp, calls>>

\* ---------------------------------------------------------- CreateOrder
DigitValue == [c \in Digits |->
    CASE c = "0" -> 0 [] c = "1" -> 1 [] c = "2" -> 2 [] c = "3" -> 3 [] c = "4" -> 4
      [] c = "5" -> 5 [] c = "6" -> 6 [] c = "7" -> 7 [] c = "8" -> 8 [] c = "9" -> 9]

RECURSIVE DecimalValue(_)
DecimalValue(s) ==
    IF s = <<>> THEN 0
    ELSE DecimalValue(SubSeq(s, 1, Len(s) - 1)) * 10 + DigitValue[s[Len(s)]]

\* The integer a graphene.ID stands for when it is used as a primary key, or
\* -1 when it is no number: the lookup then raises ValueError.
IdToPk(id) ==
    IF id # <<>> /\ \A i \in 1..Len(id) : id[i] \in Digits THEN DecimalValue(id) ELSE -1

RECURSIVE IdText(_)
IdText(id) == IF id = <<>> THEN "" ELSE id[1] \o IdText(Tail(id))

CustomerIdInputs == {<<"1">>, <<"2">>, <<"x">>}
ProductIdInputs == {<<"1">>, <<"2">>, <<"x">>}
OrderDateInputs == {<<>>, <<3>>}
Clock == {7}

\* OrderInput objects: every list of product ids for the stored customer, one
\* order with a date supplied, and the other customer ids with an empty and
\* a one-id list.
OrderInputs ==
    [customer_id : {<<"1">>},
     product_ids : SeqsUpTo(ProductIdInputs, MaxProductIds),
     order_date : {<<>>}]
    \cup
    [customer_id : {<<"1">>},
     product_ids : {<<<<"1">>>>},
     order_date : OrderDateInputs]
    \cup
    [customer_id : CustomerIdInputs,
     product_ids : {<<>>, <<<<"1">>>>},
     order_date : {<<>>}]

CreateOrderResp(order, message, errors) ==
    [op |-> "CreateOrder", order |-> order, message |-> message, errors |-> errors]

ProductNotFound(id) ==
    ErrorType("product_ids", "Product with ID " \o IdText(id) \o " not found")

InvalidIdEntry(id) ==
    ExceptionEntry("Field 'id' expected a number but got '" \o IdText(id) \o "'.")

\* lines 308-311: the resolver is entered.
CreateOrderCall(p, input) ==
    /\ CanCall(p)
    /\ Accept(p, "CreateOrder", input)
    /\ pc' = [pc EXCEPT ![p] = "co_customer"]
    /\ loc' = [loc EXCEPT ![p] =
           [i |-> 1, errors |-> <<>>, products |-> <<>>, order |-> <<>>, total |-> 0]]
    /\ resp' = [resp EXCEPT ![p] = NoResp]
    /\ UNCHANGED <<customers, products, orders, orderProducts, nextId, tx>>

CreateOrderReturns(p, response) ==
    /\ resp' = [resp EXCEPT ![p] = response]
    /\ pc' = [pc EXCEPT ![p] = "done"]

\* lines 312-322 and 364-366: the customer lookup and the empty-list check.
CreateOrderGetCustomer(p) ==
    /\ pc[p] = "co_customer"
    /\ LET input == req[p].input
           pk == IdToPk(input.customer_id)
       IN  IF pk = -1
           THEN CreateOrderReturns(p, CreateOrderResp(<<>>, "Failed to create order",
                                       <<InvalidIdEntry(input.customer_id)>>))
           ELSE IF ~\E c \in customers : c.id = pk
           THEN CreateOrderReturns(p, CreateOrderResp(<<>>, "Invalid customer",
                                       <<ErrorType("customer_id", "Customer not found")>>))
           ELSE IF input.product_ids = <<>>
           THEN CreateOrderReturns(p, CreateOrderResp(<<>>, "No products selected",
                                       <<ErrorType("product_ids", "At least one product is required")>>))
           ELSE pc' = [pc EXCEPT ![p] = "co_product"] /\ UNCHANGED resp
    /\ UNCHANGED <<customers, products, orders, orderProducts, nextId, req, loc, tx, calls>>

\* lines 324-334 and 364-366: one product lookup; after the last one the
\* collected errors end the call.
CreateOrderGetProduct(p) ==
    /\ pc[p] = "co_product"
    /\ LET id == req[p].input.product_ids[loc[p].i]
           pk == IdToPk(id)
           found == {x \in products : x.id = pk}
           last == loc[p].i = Len(req[p].input.product_ids)
           errors == IF found = {} THEN Append(loc[p].errors, ProductNotFound(id))
                     ELSE loc[p].errors
       IN  IF pk = -1
           THEN /\ CreateOrderReturns(p, CreateOrderResp(<<>>, "Failed to create order",
                                          Append(loc[p].errors, InvalidIdEntry(id))))
                /\ UNCHANGED loc
           ELSE /\ loc' = [loc EXCEPT
                       ![p].errors = errors,
                       ![p].products = IF found = {} THEN @
                                       ELSE Append(@, CHOOSE x \in found : TRUE),
                       ![p].i = IF last THEN 1 ELSE @ + 1]
                /\ IF ~last THEN UNCHANGED <<pc, resp>>
                   ELSE IF errors # <<>>
                   THEN CreateOrderReturns(p, CreateOrderResp(<<>>, "Invalid product IDs", errors))
                   ELSE pc' = [pc EXCEPT ![p] = "co_create"] /\ UNCHANGED resp
    /\ UNCHANGED <<customers, products, orders, orderProducts, nextId, req, tx, calls>>

\* order_date is declared auto_now_add=True: on insert the field takes the
\* current time, whatever value the caller passed.
OrderDateOnInsert(supplied, now) == now

\* lines 337-341: the atomic block is opened and the Order row inserted.
CreateOrderCreate(p) ==
    /\ pc[p] = "co_create"
    /\ \E now \in Clock :
         LET input == req[p].input
             supplied == IF input.order_date = <<>> THEN now ELSE input.order_date[1]
             order == [id |-> nextId.order, customer |-> IdToPk(input.customer_id),
                       total_amount |-> 0, status |-> "pending",
                       order_date |-> OrderDateOnInsert(supplied, now)]
         IN  /\ tx' = [tx EXCEPT ![p] = [NoTx EXCEPT !.active = TRUE, !.orders = {order}]]
             /\ loc' = [loc EXCEPT ![p].order = <<order>>, ![p].i = 1, ![p].total = 0]
    /\ nextId' = Bump("order")
    /\ pc' = [pc EXCEPT ![p] = "co_line"]
    /\ UNCHANGED <<customers, products, orders, orderProducts, req, resp, calls>>

\* OrderProduct.save: a price_at_time that is falsy is taken from the product.
OrderProductSave(line, product) ==
    IF line.price_at_time = 0 THEN [line EXCEPT !.price_at_time = product.price] ELSE line

\* unique_together = ('order', 'product')
UniqueLineViolated(p, line) ==
    \E l \in orderProducts \cup tx[p].lines :
        l.order = line.order /\ l.product = line.product

\* total_amount += product.price
AddToTotalOverwrites(total, price) == price
AddToTotal(total, price) == total + price

\* lines 345-352 and 364-366: one OrderProduct insert inside the block; a
\* failed insert leaves the block by its exception.
CreateOrderAddLine(p) ==
    /\ pc[p] = "co_line"
    /\ loc[p].i <= Len(loc[p].products)
    /\ LET product == loc[p].products[loc[p].i]
           line == OrderProductSave(
                       [order |-> loc[p].order[1].id, product |-> product.id,
                        quantity |-> 1, price_at_time |-> product.price], product)
       IN  IF UniqueLineViolated(p, line)
           THEN /\ orders' = AtomicExit(orders, tx[p].orders, p, TRUE)
                /\ orderProducts' = AtomicExit(orderProducts, tx[p].lines, p, TRUE)
                /\ tx' = [tx EXCEPT ![p] = NoTx]
                /\ CreateOrderReturns(p, CreateOrderResp(<<>>, "Failed to create order",
                                          <<ExceptionEntry(InsertErrorMessage("integrity"))>>))
                /\ UNCHANGED loc
           ELSE /\ tx' = [tx EXCEPT ![p].lines = @ \cup {line}]
                /\ loc' = [loc EXCEPT ![p].total = AddToTotal(@, product.price), ![p].i = @ + 1]
                /\ UNCHANGED <<orders, orderProducts, pc, resp>>
    /\ UNCHANGED <<customers, products, nextId, req, calls>>

\* lines 354-362: the total is saved, the block commits, the order is returned.
CreateOrderSave(p) ==
    /\ pc[p] = "co_line"
    /\ loc[p].i > Len(loc[p].products)
    /\ LET order == [loc[p].order[1] EXCEPT !.total_amount = loc[p].total]
           saved == [order EXCEPT !.total_amount = Quantize(@)]
       IN  /\ orders' = AtomicExit(orders, {saved}, p, FALSE)
           /\ orderProducts' = AtomicExit(orderProducts, tx[p].lines, p, FALSE)
           /\ loc' = [loc EXCEPT ![p].order = <<order>>]
           /\ CreateOrderReturns(p, CreateOrderResp(<<order>>, "Order created successfully", <<>>))
    /\ tx' = [tx EXCEPT ![p] = NoTx]
    /\ UNCHANGED <<customers, products, nextId, req, calls>>

\* The price the product of a line has now (order_product.product.price).
ProductPrice(id) == (CHOOSE x \in products : x.id = id).price

\* Order.calculate_total: the sum of product.price * quantity over
\* orderproduct_set.all().
RECURSIVE SumCurrent(_)
SumCurrent(lines) ==
    IF lines = {} THEN 0
    ELSE LET l == CHOOSE x \in lines : TRUE
         IN  ProductPrice(l.product) * l.quantity + SumCurrent(lines \ {l})

calculate_total(order) == SumCurrent({l \in orderProducts : l.order = order.id})

\* ------------------------------------------------------ specifications
Init ==
    /\ customers = {}
    /\ products = {}
    /\ orders = {}
    /\ orderProducts = {}
    /\ nextId = [customer |-> 1, product |-> 1, order |-> 1]
    /\ pc = [p \in Procs |-> "idle"]
    /\ req = [p \in Procs |-> NoReq]
    /\ loc = [p \in Procs |-> NoLoc]
    /\ tx = [p \in Procs |-> NoTx]
    /\ resp = [p \in Procs |-> NoResp]
    /\ calls = 0

\* The customer mutations as worker p runs them.
CustomerStep(p, bulkInputs) ==
    \/ \E input \in CustomerInputs : CreateCustomerCall(p, input)
    \/ CreateCustomerExists(p)
    \/ CreateCustomerCreate(p)
    \/ \E input \in bulkInputs : BulkCall(p, input)
    \/ BulkRowCheck(p)
    \/ BulkRowCreate(p)
    \/ BulkExit(p)
    \/ Return(p)

\* Two workers serve customer mutations at once.
Next == \E p \in Procs : CustomerStep(p, BulkInputs)

Spec == Init /\ [][Next]_vars

\* One worker serves customer mutations one after the other.
NextSeq == CustomerStep("w1", BulkInputsSeq)

SpecSeq == Init /\ [][NextSeq]_vars

\* One worker serves customer mutations whose batches may hold null rows.
NextNull == CustomerStep("w1", BulkInputsNull) \/ BulkRowRaises("w1")

SpecNull == Init /\ [][NextNull]_vars

\* A store seeded with one customer and one product (29.99, stock 100), and
\* no order yet.
InitOrders ==
    /\ customers = {[id |-> 1, name |-> "Alice", email |-> EAlice, phone |-> PhoneOk]}
    /\ products = {[id |-> 1, price |-> 29990, stock |-> 100]}
    /\ orders = {}
    /\ orderProducts = {}
    /\ nextId = [customer |-> 2, product |-> 2, order |-> 1]
    /\ pc = [p \in Procs |-> "idle"]
    /\ req = [p \in Procs |-> NoReq]
    /\ loc = [p \in Procs |-> NoLoc]
    /\ tx = [p \in Procs |-> NoTx]
    /\ resp = [p \in Procs |-> NoResp]
    /\ calls = 0

\* The product and order mutations as worker p runs them.
OrderStep(p) ==
    \/ \E input \in ProductInputs : CreateProductCall(p, input)
    \/ \E input \in OrderInputs : CreateOrderCall(p, input)
    \/ CreateOrderGetCustomer(p)
    \/ CreateOrderGetProduct(p)
    \/ CreateOrderCreate(p)
    \/ CreateOrderAddLine(p)
    \/ CreateOrderSave(p)
    \/ Return(p)

\* Two workers serve product and order mutations at once.
NextOrders == \E p \in Procs : OrderStep(p)

SpecOrders == InitOrders /\ [][NextOrders]_vars

\* One worker serves product and order mutations while stored products are
\* given new prices.
NextPrices ==
    \/ OrderStep("w1")
    \/ \E x \in products : \E price \in NewPrices : ProductSave(x.id, price)

SpecPrices == InitOrders /\ [][NextPrices]_vars

\* Two workers serve all four mutations at once.
NextAll == \E p \in Procs : CustomerStep(p, BulkInputs) \/ OrderStep(p)

SpecAll == InitOrders /\ [][NextAll]_vars

\* ---------------------------------------------------------------- claims
Done(p, op) == pc[p] = "done" /\ req[p].op = op

ValidCustomerInput(input) ==
    validate_email(input.email) = <<>> /\ validate_phone(input.phone) = <<>>

EmailTaken == ErrorType("email", "Email already exists")

\* C1: no two committed Customer rows ever hold the same email, whatever the
\* interleaving of the single and the bulk create.
C1_UniqueEmail ==
    \A c, d \in customers : c.email = d.email => c = d

\* C1 witness: a create passed its existence check, lost the race for its
\* email to another request, and was stopped by the unique constraint.
C1_Witness ==
    \E p \in Procs :
        /\ pc[p] = "done"
        /\ req[p].op \in {"CreateCustomer", "BulkCreateCustomers"}
        /\ \E i \in 1..Len(resp[p].errors) :
              LET e == resp[p].errors[i]
                  entries == IF req[p].op = "CreateCustomer" THEN <<e>> ELSE e.errors
              IN  entries[1] = ExceptionEntry(InsertErrorMessage("integrity"))
        /\ customers # {}

\* C2: two CreateCustomer calls with the same valid, unused email (the only
\* two requests the store has seen) end with exactly one created customer,
\* and the other call answers customer=null with the error
\* {field: email, message: "Email already exists"}.
C2_OneSuccessOneAlreadyExists ==
    \A p, q \in Procs :
        ( /\ p # q
          /\ calls = 2
          /\ Done(p, "CreateCustomer") /\ Done(q, "CreateCustomer")
          /\ req[p].input.email = req[q].input.email
          /\ ValidCustomerInput(req[p].input) /\ ValidCustomerInput(req[q].input) )
        => \/ /\ resp[p].customer # <<>> /\ resp[p].errors = <<>>
              /\ resp[q].customer = <<>> /\ resp[q].errors = <<EmailTaken>>
           \/ /\ resp[q].customer # <<>> /\ resp[q].errors = <<>>
              /\ resp[p].customer = <<>> /\ resp[p].errors = <<EmailTaken>>

\* C7: once BulkCreateCustomers has returned, every customer of its
\* customers list is a committed row of the store.
C7_ReturnedCustomersCommitted ==
    \A p \in Procs :
        Done(p, "BulkCreateCustomers")
        => \A j \in 1..Len(resp[p].customers) : resp[p].customers[j] \in customers

\* C8: a CreateCustomer whose email, or whose phone when one is given, fails
\* format validation answers customer=null with an error entry tagged with
\* that field, and writes nothing.
C8_InvalidFormatTagged ==
    [][\A p \in Procs :
          ( /\ pc[p] = "idle" /\ pc'[p] # "idle"
            /\ req'[p].op = "CreateCustomer"
            /\ ~ValidCustomerInput(req'[p].input) )
          => /\ resp'[p].customer = <<>>
             /\ pc'[p] = "done"
             /\ customers' = customers
             /\ \E i \in 1..Len(resp'[p].errors) :
                   resp'[p].errors[i].field =
                       IF validate_email(req'[p].input.email) # <<>> THEN "email" ELSE "phone"
      ]_vars

ExpectedCreated(input, beforeEmails) ==
    LET F[i \in 0..Len(input)] ==
            IF i = 0 THEN <<>>
            ELSE LET prev == F[i - 1]
                     row == input[i]
                 IN  IF /\ ValidCustomerInput(row)
                        /\ row.email \notin beforeEmails
                        /\ \A j \in 1..Len(prev) : input[prev[j]].email # row.email
                     THEN Append(prev, i)
                     ELSE prev
    IN  F[Len(input)]

\* The emails the store held before worker p's batch: those of the committed
\* rows that the batch did not return.
EmailsBefore(p) ==
    {c.email : c \in {d \in customers :
                         \A j \in 1..Len(resp[p].customers) : resp[p].customers[j] # d}}

\* The partition of a finished batch by index, without the message.
BulkPartitioned(p) ==
    LET input == req[p].input
        r == resp[p]
        expected == ExpectedCreated(input, EmailsBefore(p))
        expectedSet == {expected[j] : j \in 1..Len(expected)}
    IN  /\ Len(r.customers) + Len(r.errors) = Len(input)
        /\ Len(r.customers) = Len(expected)
        /\ \A j \in 1..Len(expected) :
              /\ r.customers[j].name = input[expected[j]].name
              /\ r.customers[j].email = input[expected[j]].email
              /\ r.customers[j].phone = input[expected[j]].phone
              /\ r.customers[j] \in customers
        /\ \A i \in (1..Len(input)) \ expectedSet :
              /\ Cardinality({k \in 1..Len(r.errors) : r.errors[k].index = i - 1}) = 1
              /\ \A k \in 1..Len(r.errors) :
                    r.errors[k].index = i - 1
                    => r.errors[k].email = input[i].email /\ r.errors[k].errors # <<>>

RECURSIVE SumLines(_)
SumLines(lines) ==
    IF lines = {} THEN 0
    ELSE LET l == CHOOSE x \in lines : TRUE
         IN  l.price_at_time * l.quantity + SumLines(lines \ {l})

RECURSIVE SumPrices(_)
SumPrices(ps) == IF ps = <<>> THEN 0 ELSE ps[1].price + SumPrices(Tail(ps))

LinesOf(orderId) == {l \in orderProducts : l.order = orderId}

\* C3: in every committed state each order has lines, its total_amount is
\* the sum of price_at_time x quantity over them, and no line lacks its
\* order; the order a CreateOrder returned is stored with the sum of the
\* prices its products had when they were resolved, one line of quantity 1
\* per product.
C3_TotalMatchesLines ==
    /\ \A o \in orders :
          /\ LinesOf(o.id) # {}
          /\ o.total_amount = SumLines(LinesOf(o.id))
    /\ \A l \in orderProducts : \E o \in orders : o.id = l.order
    /\ \A p \in Procs :
          (Done(p, "CreateOrder") /\ resp[p].order # <<>>)
          => /\ \E o \in orders :
                   o.id = resp[p].order[1].id /\ o.total_amount = SumPrices(loc[p].products)
             /\ LinesOf(resp[p].order[1].id) =
                   {[order |-> resp[p].order[1].id, product |-> loc[p].products[k].id,
                     quantity |-> 1, price_at_time |-> loc[p].products[k].price] :
                        k \in 1..Len(loc[p].products)}

\* C3 witness: an order is committed with its lines and a positive total
\* while another worker is inside its own block, its order row written with
\* a line and the total not yet saved.
C3_Witness ==
    \E o \in orders : \E p \in Procs :
        /\ o.total_amount > 0
        /\ LinesOf(o.id) # {}
        /\ tx[p].active /\ tx[p].lines # {}
        /\ \A t \in tx[p].orders : t.total_amount = 0

HasDuplicate(ps) == \E i, j \in 1..Len(ps) : i < j /\ ps[i].id = ps[j].id

\* C4: when an OrderProduct insert fails inside the atomic block (the same
\* product listed twice), the call answers order=null with errors, and the
\* store holds neither the Order row of the call nor any of its lines.
C4_FailedBlockRolledBack ==
    \A p \in Procs :
        (Done(p, "CreateOrder") /\ loc[p].order # <<>> /\ HasDuplicate(loc[p].products))
        => /\ resp[p].order = <<>>
           /\ resp[p].errors # <<>>
           /\ ~\E o \in orders : o.id = loc[p].order[1].id
           /\ LinesOf(loc[p].order[1].id) = {}

\* C4 witness: a call that listed one stored product twice has returned, and
\* its block had written the order row.
C4_Witness ==
    \E p \in Procs :
        /\ Done(p, "CreateOrder")
        /\ loc[p].order # <<>>
        /\ HasDuplicate(loc[p].products)
        /\ req[p].input.product_ids = <<<<"1">>, <<"1">>>>

Unresolved(id) == ~\E x \in products : x.id = IdToPk(id)

\* C5: a CreateOrder for a stored customer whose non-empty id list holds an
\* id that resolves to no product answers order=null, its errors hold one
\* not-found entry on product_ids for every listed occurrence of such an id,
\* and the call wrote no order.
C5_OneNotFoundPerMissingId ==
    \A p \in Procs :
        LET ids == req[p].input.product_ids
        IN  ( /\ Done(p, "CreateOrder")
              /\ \E c \in customers : c.id = IdToPk(req[p].input.customer_id)
              /\ \E k \in 1..Len(ids) : Unresolved(ids[k]) )
            => /\ resp[p].order = <<>>
               /\ loc[p].order = <<>>
               /\ \A k \in 1..Len(ids) :
                     Unresolved(ids[k])
                     => Cardinality({j \in 1..Len(resp[p].errors) :
                                        resp[p].errors[j] = ProductNotFound(ids[k])})
                        = Cardinality({m \in 1..Len(ids) : ids[m] = ids[k]})

\* C9: a CreateProduct with price <= 0 answers product=null with an error
\* tagged with field price and leaves the Product table alone; with
\* price > 0 and stock >= 0 (0 when left out) it succeeds and the stored row
\* carries the price and the stock of the input; every stored product has
\* price > 0.
C9_PriceChecked ==
    [][\A p \in Procs :
          (pc[p] = "idle" /\ pc'[p] # "idle" /\ req'[p].op = "CreateProduct")
          => LET input == req'[p].input
                 stock == IF input.stock = <<>> THEN 0 ELSE input.stock[1]
             IN  /\ input.price <= 0
                    => /\ resp'[p].product = <<>>
                       /\ products' = products
                       /\ \E i \in 1..Len(resp'[p].errors) : resp'[p].errors[i].field = "price"
                 /\ (input.price > 0 /\ stock >= 0)
                    => /\ resp'[p].product # <<>>
                       /\ resp'[p].errors = <<>>
                       /\ \E x \in products' \ products :
                             /\ x.id = resp'[p].product[1].id
                             /\ x.price = input.price
                             /\ x.stock = stock
                 /\ \A x \in products' : x.price > 0
      ]_vars

IsFault(r) == "fault" \in DOMAIN r

\* C11: no mutation lets a validation or existence failure escape as an
\* exception: every finished call holds a response object, and a finished
\* BulkCreateCustomers, also one whose list holds a malformed or a null row,
\* has processed every row (each row is among the created customers or has
\* an error entry).
C11_NoFailureEscapes ==
    \A p \in Procs :
        pc[p] = "done"
        => /\ ~IsFault(resp[p])
           /\ req[p].op = "BulkCreateCustomers"
              => Len(resp[p].customers) + Len(resp[p].errors) = Len(req[p].input)

\* C12: the Order a successful CreateOrder stored has status pending, and
\* its order_date is the orderDate of the call when one was supplied, and
\* the creation time when none was.
C12_DateSuppliedOrNow ==
    \A p \in Procs :
        (Done(p, "CreateOrder") /\ resp[p].order # <<>>)
        => \E o \in orders :
              /\ o.id = resp[p].order[1].id
              /\ o.status = "pending"
              /\ IF req[p].input.order_date # <<>>
                 THEN o.order_date = req[p].input.order_date[1]
                 ELSE o.order_date \in Clock

UnknownCustomer(id) == ~\E c \in customers : c.id = IdToPk(id)

\* C13: CreateOrder checks its preconditions in a fixed order and stops at
\* the first that fails: a customer_id that names no stored customer gives
\* exactly the one error on field customer_id, whatever product_ids holds and
\* with no product looked up; otherwise an empty product_ids gives exactly
\* the one error on field product_ids; both answer order=null and leave the
\* Order and OrderProduct tables as they were.
C13_FirstFailedPrecondition ==
    [][\A p \in Procs :
          (pc[p] = "co_customer" /\ pc'[p] # "co_customer")
          => LET input == req[p].input
             IN  /\ UnknownCustomer(input.customer_id)
                    => /\ pc'[p] = "done"
                       /\ resp'[p].order = <<>>
                       /\ resp'[p].errors = <<ErrorType("customer_id", "Customer not found")>>
                       /\ loc'[p].products = <<>>
                       /\ orders' = orders /\ orderProducts' = orderProducts
                 /\ (~UnknownCustomer(input.customer_id) /\ input.product_ids = <<>>)
                    => /\ pc'[p] = "done"
                       /\ resp'[p].order = <<>>
                       /\ resp'[p].errors =
                             <<ErrorType("product_ids", "At least one product is required")>>
                       /\ loc'[p].products = <<>>
                       /\ orders' = orders /\ orderProducts' = orderProducts
      ]_vars

\* C14: recomputing the total of a stored order (Order.calculate_total)
\* gives the sum over its lines of price_at_time x quantity, also after the
\* price of one of its products was changed: the value the order was stored
\* with.
C14_RecomputedTotalFrozen ==
    \A o \in orders :
        /\ calculate_total(o) = SumLines(LinesOf(o.id))
        /\ calculate_total(o) = o.total_amount

\* The entity of a single-entity response, <<>> when it is null.
Entity(r) ==
    CASE r.op = "CreateCustomer" -> r.customer
      [] r.op = "CreateProduct" -> r.product
      [] r.op = "CreateOrder" -> r.order

\* The committed rows of the table the entity of r belongs to.
TableOf(r) ==
    CASE r.op = "CreateCustomer" -> customers
      [] r.op = "CreateProduct" -> products
      [] r.op = "CreateOrder" -> orders

SingleEntityOps == {"CreateCustomer", "CreateProduct", "CreateOrder"}

\* C15: whatever the input and the interleaving, the response of a finished
\* CreateCustomer, CreateProduct or CreateOrder holds an entity exactly when
\* its error list is empty, and an entity it holds is a committed row of its
\* table.
C15_EntityXorErrors ==
    \A p \in Procs :
        (pc[p] = "done" /\ req[p].op \in SingleEntityOps)
        => /\ Entity(resp[p]) # <<>> <=> resp[p].errors = <<>>
           /\ Entity(resp[p]) # <<>>
              => \E x \in TableOf(resp[p]) : x.id = Entity(resp[p])[1].id

\* C15 witness: a CreateOrder has returned its committed order while a
\* CreateCustomer that lost its email to a concurrent insert has returned
\* null with an error.
C15_Witness ==
    \E p, q \in Procs :
        /\ Done(p, "CreateOrder") /\ resp[p].order # <<>> /\ resp[p].errors = <<>>
        /\ \E o \in orders : o.id = resp[p].order[1].id
        /\ Done(q, "CreateCustomer") /\ resp[q].customer = <<>>
        /\ resp[q].errors # <<>>

====
